---- MODULE Spec2Model ----
(***************************************************************************)
(* Model of server.js, the OpenAI -> NVIDIA NIM proxy.                     *)
(*                                                                         *)
(* The Node.js event loop runs every callback to completion, so one action *)
(* of the model is one synchronous run of the code: the request handler up *)
(* to its await (lines 104-142), its continuation after the await (lines   *)
(* 152-243, or the catch block 280-299), and each registered callback      *)
(* (data, end, error, close, heartbeat tick).                              *)
(*                                                                         *)
(* Strings are modelled as sequences of text pieces, so that concatenation *)
(* is \o and String.prototype.includes is a contiguous-subsequence test.   *)
(*                                                                         *)
(* FORCE_STREAMING is true (line 28), so the non-streaming branch (lines   *)
(* 245-278) is never taken and is not modelled.  req is taken to emit      *)
(* 'close' when the caller's connection closes.                            *)
(***************************************************************************)
EXTENDS Integers, Sequences, FiniteSets, TLC

VARIABLES
    validatedModels,   \* line 31: the Map, as its entries in insertion order
    showReasoning,     \* line 25: SHOW_REASONING, fixed for a process
    lastCall,          \* history: the latest getOptimalModel call
    pc,                \* per request: where its handler stands
    model,             \* per request: line 106, the model name asked for
    nimRequest,        \* per request: line 127, the request sent to the backend
    heartbeat,         \* per request: line 160, the interval timer is armed
    buffer,            \* per request: line 164
    reasoningStarted,  \* per request: line 165
    stream,            \* per request: response.data, the backend stream
    sink,              \* per request: every write made on res, in order
    resEnded,          \* per request: res.end() / res.json() was called
    callerGone,        \* per request: "no", or when the caller's connection
                       \* closed: "early" (before line 239 ran) or "midstream"
    received,          \* history, per request: all backend bytes so far
    nData,             \* per request: data events delivered so far
    nBeats             \* per request: heartbeat ticks so far

vars == <<validatedModels, showReasoning, lastCall, pc, model, nimRequest, heartbeat,
          buffer, reasoningStarted, stream, sink, resEnded, callerGone,
          received, nData, nBeats>>

reqVars == <<pc, model, nimRequest, heartbeat, buffer, reasoningStarted, stream,
             sink, resEnded, callerGone, received, nData, nBeats>>

(***************************************************************************)
(* Bounds of the model.  MAX_CACHE_SIZE is 100 in the source (line 27);    *)
(* the model runs the same code with a small cache so that eviction is     *)
(* reached.                                                                *)
(***************************************************************************)
MAX_CACHE_SIZE == 2
MaxChunks == 2
MaxBeats == 1

(***************************************************************************)
(* Strings as sequences of pieces.                                         *)
(***************************************************************************)
RECURSIVE MapSeq(_, _)
MapSeq(s, f) ==
    IF s = <<>> THEN <<>> ELSE <<f[Head(s)]>> \o MapSeq(Tail(s), f)

\* String.prototype.includes: needle occurs in hay as a contiguous run
includes(hay, needle) ==
    \E i \in 0..(Len(hay) - Len(needle)) :
        \A j \in 1..Len(needle) : hay[i + j] = needle[j]

\* the pieces model names are written with, and their lower-case forms
Pieces ==
    {"gpt-4", "GPT-4", "gpt-3.5", "o", "-turbo", "-32k", "claude", "Claude",
     "-3", "-2", "-opus", "-sonnet", "gemini", "-pro", "deepseek", "DeepSeek",
     "-r1", "-", "70b", "405b", "llama-", "mistral", "constructor"}

lowerOf ==
    [p \in Pieces |->
        CASE p = "GPT-4" -> "gpt-4"
          [] p = "Claude" -> "claude"
          [] p = "DeepSeek" -> "deepseek"
          [] OTHER -> p]

toLowerCase(name) == MapSeq(name, lowerOf)

(***************************************************************************)
(* MODEL_MAPPING, lines 34-42.  It is an object literal, so a property     *)
(* read also finds what Object.prototype defines ('constructor',           *)
(* 'toString', ...): those reads give a function, which is truthy.         *)
(***************************************************************************)
MODEL_MAPPING ==
    <<  <<<<"gpt-3.5", "-turbo">>,         "nvidia/llama-3.1-nemotron-ultra-253b-v1">>,
        <<<<"gpt-4">>,                     "qwen/qwen3-coder-480b-a35b-instruct">>,
        <<<<"gpt-4", "-turbo">>,           "moonshotai/kimi-k2-instruct-0905">>,
        <<<<"gpt-4", "o">>,                "deepseek-ai/deepseek-v3.1">>,
        <<<<"claude", "-3", "-opus">>,     "openai/gpt-oss-120b">>,
        <<<<"claude", "-3", "-sonnet">>,   "openai/gpt-oss-20b">>,
        <<<<"gemini", "-pro">>,            "qwen/qwen3-next-80b-a3b-thinking">>  >>

ObjectPrototype == << <<<<"constructor">>, "[Function: Object]">> >>

\* an ordered key/value list: has, get, keys
Keys(m) == {m[i][1] : i \in 1..Len(m)}
Has(m, k) == k \in Keys(m)
Get(m, k) == m[CHOOSE i \in 1..Len(m) : m[i][1] = k][2]

\* MODEL_MAPPING[requestedModel], line 73: own property, else the prototype's
Lookup(k) ==
    IF Has(MODEL_MAPPING, k) THEN <<Get(MODEL_MAPPING, k)>>
    ELSE IF Has(ObjectPrototype, k) THEN <<Get(ObjectPrototype, k)>>
    ELSE <<>>

\* Map.prototype.set: a present key keeps its place, a new key goes last
MapSet(m, k, v) ==
    IF Has(m, k)
    THEN [i \in 1..Len(m) |-> IF m[i][1] = k THEN <<k, v>> ELSE m[i]]
    ELSE Append(m, <<k, v>>)

\* Map.prototype.delete
MapDelete(m, k) == SelectSeq(m, LAMBDA e : e[1] # k)

(***************************************************************************)
(* getOptimalModel, lines 72-101.                                          *)
(***************************************************************************)
Fallback(requestedModel) ==
    LET modelLower == toLowerCase(requestedModel) IN
    IF includes(modelLower, <<"deepseek">>)
    THEN "deepseek-ai/deepseek-v3.1"
    ELSE IF \/ includes(modelLower, <<"gpt-4">>)
            \/ includes(modelLower, <<"claude", "-opus">>)
            \/ includes(modelLower, <<"405b">>)
    THEN "meta/llama-3.1-405b-instruct"
    ELSE IF \/ includes(modelLower, <<"claude">>)
            \/ includes(modelLower, <<"gemini">>)
            \/ includes(modelLower, <<"70b">>)
    THEN "meta/llama-3.1-70b-instruct"
    ELSE "deepseek-ai/deepseek-v3.1"

CacheFull_gt(m) == Len(m) > MAX_CACHE_SIZE
\* line 94
CacheFull(m) == Len(m) >= MAX_CACHE_SIZE

EvictFirst_two(m) == SubSeq(m, 3, Len(m))
\* lines 95-96: the first key in insertion order is deleted
EvictFirst(m) == MapDelete(m, m[1][1])

\* lines 94-98
Insert(m, k, v) ==
    MapSet(IF CacheFull(m) THEN EvictFirst(m) ELSE m, k, v)

CacheHit_touch(m, k) == Append(MapDelete(m, k), <<k, Get(m, k)>>)
\* lines 77-79: a hit reads the Map and leaves it as it is
CacheHit(m, k) == m

\* the value returned and the Map afterwards
getOptimalModel(m, requestedModel) ==
    IF Lookup(requestedModel) # <<>>
    THEN [ret |-> Lookup(requestedModel)[1], cache |-> m]
    ELSE IF Has(m, requestedModel)
    THEN [ret |-> Get(m, requestedModel), cache |-> CacheHit(m, requestedModel)]
    ELSE [ret |-> Fallback(requestedModel),
          cache |-> Insert(m, requestedModel, Fallback(requestedModel))]

(***************************************************************************)
(* The backend's event stream.  A chunk, a line and the buffer are          *)
(* sequences of symbols: the line break, the 'data: ' prefix, a JSON        *)
(* object (its choices, each a delta with an optional reasoning_content and *)
(* an optional content), or other text.  A chunk arrives as bytes: its      *)
(* symbols are whole runs of ASCII bytes, or one of the two bytes of a      *)
(* character that UTF-8 encodes in two.                                     *)
(***************************************************************************)
NL == [t |-> "nl", text |-> <<>>, choices |-> <<>>]
Prefix == [t |-> "prefix", text |-> <<"data: ">>, choices |-> <<>>]
Text(s) == [t |-> "text", text |-> s, choices |-> <<>>]
Json(ch) == [t |-> "json", text |-> <<>>, choices |-> ch]

\* the bytes C3 A9 of the character e-acute, the character, and U+FFFD
LeadByte == [t |-> "lead", text |-> <<>>, choices |-> <<>>]
TrailByte == [t |-> "trail", text |-> <<>>, choices |-> <<>>]
EAcute == Text(<<"e-acute">>)
Replacement == Text(<<"U+FFFD">>)

toString_whole(bytes) == bytes
\* line 174: chunk.toString(), the UTF-8 decoding of one chunk by itself; a
\* byte sequence that is not a whole character decodes to U+FFFD
RECURSIVE toString(_)
toString(bytes) ==
    IF bytes = <<>> THEN <<>>
    ELSE IF Head(bytes).t = "lead"
    THEN IF Len(bytes) >= 2 /\ bytes[2].t = "trail"
         THEN <<EAcute>> \o toString(SubSeq(bytes, 3, Len(bytes)))
         ELSE <<Replacement>> \o toString(Tail(bytes))
    ELSE IF Head(bytes).t = "trail"
    THEN <<Replacement>> \o toString(Tail(bytes))
    ELSE <<Head(bytes)>> \o toString(Tail(bytes))

Delta(hasR, r, hasC, c) == [hasR |-> hasR, r |-> r, hasC |-> hasC, c |-> c]

SENTINEL == <<"[DONE]">>
OPEN_MARK == <<"<think>\n">>
CLOSE_MARK == <<"</think>\n\n">>

\* buffer.split('\n'): the pieces between line breaks, the last one included
RECURSIVE split(_, _)
split(s, cur) ==
    IF s = <<>> THEN <<cur>>
    ELSE IF Head(s) = NL THEN <<cur>> \o split(Tail(s), <<>>)
    ELSE split(Tail(s), Append(cur, Head(s)))

\* the text of a symbol contains '[DONE]'
symbolHasDone(x) ==
    \/ includes(x.text, SENTINEL)
    \/ \E i \in 1..Len(x.choices) :
          \/ includes(x.choices[i].r, SENTINEL)
          \/ includes(x.choices[i].c, SENTINEL)

\* line 179
startsWithData(line) == line # <<>> /\ line[1] = Prefix

IsSentinel_exact(line) == line = <<Prefix, Text(SENTINEL)>>
\* line 180: line.includes('[DONE]')
IsSentinel(line) == \E i \in 1..Len(line) : symbolHasDone(line[i])

\* line 186: JSON.parse(line.slice(6)) succeeds on exactly one JSON object
parses(line) == Len(line) = 2 /\ line[2].t = "json"

\* a JavaScript string is truthy when it is present and not empty
truthy(has, s) == has /\ s # <<>>

\* writes on res
RawWrite(line, n) ==
    [k |-> "raw", line |-> line, choices |-> <<>>, nl |-> n, status |-> 0,
     type |-> ""]
EventWrite(ch) ==
    [k |-> "event", line |-> <<>>, choices |-> ch, nl |-> 2, status |-> 0,
     type |-> ""]
HeartbeatWrite ==
    [k |-> "heartbeat", line |-> <<>>, choices |-> <<>>, nl |-> 2, status |-> 0,
     type |-> ""]
\* lines 110-116 and 291-297: res.status(st).json({error: {type, code: st}})
JsonWrite(st) ==
    [k |-> "json", line |-> <<>>, choices |-> <<>>, nl |-> 0, status |-> st,
     type |-> "invalid_request_error"]

\* lines 192-211: merge mode, one delta
mergeDelta(d, started) ==
    LET hasReason == truthy(d.hasR, d.r)
        hasContent == truthy(d.hasC, d.c)
        c1 == IF hasReason /\ ~started THEN OPEN_MARK \o d.r
              ELSE IF hasReason THEN d.r
              ELSE <<>>
        s1 == IF hasReason /\ ~started THEN TRUE ELSE started
        c2 == IF hasContent /\ s1 THEN c1 \o CLOSE_MARK \o d.c
              ELSE IF hasContent THEN c1 \o d.c
              ELSE c1
        s2 == IF hasContent /\ s1 THEN FALSE ELSE s1
    IN  [delta |-> IF c2 # <<>> THEN Delta(FALSE, <<>>, TRUE, c2) ELSE d,
         started |-> s2]

passDelta_keep(d, started) ==
    [delta |-> Delta(d.hasR, d.r, TRUE, IF truthy(d.hasC, d.c) THEN d.c ELSE <<>>),
     started |-> started]
\* lines 213-214: pass-through mode, one delta
passDelta(d, started) ==
    [delta |-> Delta(FALSE, <<>>, TRUE, IF truthy(d.hasC, d.c) THEN d.c ELSE <<>>),
     started |-> started]

\* lines 187-216: only choices[0] is looked at
transform(ch, started, show) ==
    IF ch = <<>> THEN [choices |-> ch, started |-> started]
    ELSE LET t == IF show THEN mergeDelta(ch[1], started)
                  ELSE passDelta(ch[1], started)
         IN  [choices |-> <<t.delta>> \o Tail(ch), started |-> t.started]

\* lines 178-223, one line: what is written and the new reasoningStarted
processLine(line, started, show) ==
    IF ~startsWithData(line) THEN [out |-> <<>>, started |-> started]
    ELSE IF IsSentinel(line)
    THEN [out |-> <<RawWrite(line, 2)>>, started |-> started]
    ELSE IF ~parses(line)
    THEN [out |-> <<RawWrite(line, 1)>>, started |-> started]
    ELSE LET t == transform(line[2].choices, started, show)
         IN  [out |-> <<EventWrite(t.choices)>>, started |-> t.started]

RECURSIVE processLines_break(_, _, _)
processLines_break(lines, started, show) ==
    IF lines = <<>> THEN [out |-> <<>>, started |-> started]
    ELSE LET h == processLine(Head(lines), started, show)
             rest == IF Head(lines) = <<Prefix, Text(SENTINEL)>>
                     THEN [out |-> <<>>, started |-> h.started]
                     ELSE processLines_break(Tail(lines), h.started, show)
         IN  [out |-> h.out \o rest.out, started |-> rest.started]
\* lines.forEach
RECURSIVE processLines(_, _, _)
processLines(lines, started, show) ==
    IF lines = <<>> THEN [out |-> <<>>, started |-> started]
    ELSE LET h == processLine(Head(lines), started, show)
             rest == processLines(Tail(lines), h.started, show)
         IN  [out |-> h.out \o rest.out, started |-> rest.started]

Front(s) == SubSeq(s, 1, Len(s) - 1)
Last(s) == s[Len(s)]

\* lines 174-223: the data callback on one chunk
onData(buf, started, show, chunk) ==
    LET parts == split(buf \o chunk, <<>>)
        done == processLines(Front(parts), started, show)
    IN  [buffer |-> Last(parts), out |-> done.out, started |-> done.started]

(***************************************************************************)
(* The request handler and its callbacks.  A request body is a record:     *)
(* model (<<>> when absent or empty), messages, and the optional           *)
(* temperature (in tenths), max_tokens and stream, each <<>> when absent   *)
(* and <<v>> when given.  A messages value says whether it is an array and *)
(* holds its items.                                                        *)
(***************************************************************************)
Messages(isArray, items) == <<[array |-> isArray, items |-> items]>>
AbsentMessages == <<>>
NotArrayMessages == Messages(FALSE, <<"hi">>)
EmptyMessages == Messages(TRUE, <<>>)
OneMessage == Messages(TRUE, <<"hi">>)
TwoMessages == Messages(TRUE, <<"be brief", "hi">>)

Body(name, messages, temperature, max_tokens, strm) ==
    [model |-> name, messages |-> messages, temperature |-> temperature,
     max_tokens |-> max_tokens, stream |-> strm]

NoRequest ==
    [model |-> "", messages |-> <<>>, temperature |-> 0, max_tokens |-> 0,
     stream |-> FALSE]
NoCall == [called |-> FALSE, name |-> <<>>, ret |-> "", pre |-> <<>>, by |-> 0]

FORCE_STREAMING == TRUE
DEFAULT_MODEL == <<"gpt-4", "o">>
DEFAULT_TEMPERATURE == 6
DEFAULT_MAX_TOKENS == 2048

\* x || d, for an optional number
orDefault(x, d) == IF x = <<>> \/ x[1] = 0 THEN d ELSE x[1]

\* lines 127-133
translate(body, nimModel) ==
    [model |-> nimModel,
     messages |-> body.messages,
     temperature |-> orDefault(body.temperature, DEFAULT_TEMPERATURE),
     max_tokens |-> orDefault(body.max_tokens, DEFAULT_MAX_TOKENS),
     stream |-> FORCE_STREAMING \/ (body.stream = <<TRUE>>)]

\* line 109
validMessages_nonempty(body) == body.messages # <<>>
validMessages(body) ==
    /\ body.messages # <<>>
    /\ body.messages[1].array
    /\ body.messages[1].items # <<>>

\* lines 104-142: the handler, from the request's arrival to its await
Handle(r, body) ==
    /\ pc[r] = "idle"
    /\ model' = [model EXCEPT ![r] = body.model]
    /\ IF ~validMessages(body)
       THEN /\ sink' = [sink EXCEPT ![r] = Append(@, JsonWrite(400))]
            /\ resEnded' = [resEnded EXCEPT ![r] = TRUE]
            /\ pc' = [pc EXCEPT ![r] = "responded"]
            /\ UNCHANGED <<validatedModels, lastCall, nimRequest>>
       ELSE LET name == IF body.model = <<>> THEN DEFAULT_MODEL ELSE body.model
                g == getOptimalModel(validatedModels, name)
            IN  /\ validatedModels' = g.cache
                /\ lastCall' = [called |-> TRUE, name |-> name, ret |-> g.ret,
                                pre |-> validatedModels, by |-> r]
                /\ nimRequest' = [nimRequest EXCEPT ![r] = translate(body, g.ret)]
                /\ pc' = [pc EXCEPT ![r] = "pending"]
                /\ UNCHANGED <<sink, resEnded>>
    /\ UNCHANGED <<showReasoning, heartbeat, buffer, reasoningStarted, stream,
                   callerGone, received, nData, nBeats>>

\* lines 152-243: axios resolved; headers set, timer armed, listeners registered
BackendRespond(r) ==
    /\ pc[r] = "pending"
    /\ pc' = [pc EXCEPT ![r] = "streaming"]
    /\ heartbeat' = [heartbeat EXCEPT ![r] = TRUE]
    /\ buffer' = [buffer EXCEPT ![r] = <<>>]
    /\ reasoningStarted' = [reasoningStarted EXCEPT ![r] = FALSE]
    /\ stream' = [stream EXCEPT ![r] = "open"]
    /\ UNCHANGED <<validatedModels, showReasoning, lastCall, model, nimRequest, sink,
                   resEnded, callerGone, received, nData, nBeats>>

\* lines 280-299: axios rejected (no connection, timeout, non-2xx status)
BackendReject(r, status) ==
    /\ pc[r] = "pending"
    /\ pc' = [pc EXCEPT ![r] = "responded"]
    /\ sink' = [sink EXCEPT ![r] =
                   IF @ = <<>>
                   THEN <<JsonWrite(IF status = <<>> THEN 500 ELSE status[1])>>
                   ELSE @]
    /\ resEnded' = [resEnded EXCEPT ![r] = TRUE]
    /\ UNCHANGED <<validatedModels, showReasoning, lastCall, model, nimRequest,
                   heartbeat, buffer, reasoningStarted, stream, callerGone,
                   received, nData, nBeats>>

\* lines 160-162: a tick of the interval timer
Heartbeat(r) ==
    /\ heartbeat[r]
    /\ nBeats[r] < MaxBeats
    /\ nBeats' = [nBeats EXCEPT ![r] = @ + 1]
    /\ sink' = [sink EXCEPT ![r] = Append(@, HeartbeatWrite)]
    /\ UNCHANGED <<validatedModels, showReasoning, lastCall, pc, model, nimRequest,
                   heartbeat, buffer, reasoningStarted, stream, resEnded,
                   callerGone, received, nData>>

\* lines 168-224: a chunk arrives from the backend
OnData(r, chunk) ==
    /\ stream[r] = "open"
    /\ nData[r] < MaxChunks
    /\ LET d == onData(buffer[r], reasoningStarted[r], showReasoning,
                       toString(chunk))
       IN  /\ buffer' = [buffer EXCEPT ![r] = d.buffer]
           /\ reasoningStarted' = [reasoningStarted EXCEPT ![r] = d.started]
           /\ sink' = [sink EXCEPT ![r] = @ \o d.out]
    /\ received' = [received EXCEPT ![r] = @ \o chunk]
    /\ nData' = [nData EXCEPT ![r] = @ + 1]
    /\ UNCHANGED <<validatedModels, showReasoning, lastCall, pc, model, nimRequest,
                   heartbeat, stream, resEnded, callerGone, nBeats>>

\* lines 226-230: the backend stream ends
OnEnd(r) ==
    /\ stream[r] = "open"
    /\ stream' = [stream EXCEPT ![r] = "ended"]
    /\ heartbeat' = [heartbeat EXCEPT ![r] = FALSE]
    /\ resEnded' = [resEnded EXCEPT ![r] = TRUE]
    /\ UNCHANGED <<validatedModels, showReasoning, lastCall, pc, model, nimRequest,
                   buffer, reasoningStarted, sink, callerGone, received,
                   nData, nBeats>>

OnError_envelope(r) ==
    /\ stream[r] = "open"
    /\ stream' = [stream EXCEPT ![r] = "errored"]
    /\ heartbeat' = [heartbeat EXCEPT ![r] = FALSE]
    /\ sink' = [sink EXCEPT ![r] = Append(@, JsonWrite(500))]
    /\ resEnded' = [resEnded EXCEPT ![r] = TRUE]
    /\ UNCHANGED <<validatedModels, showReasoning, lastCall, pc, model, nimRequest,
                   buffer, reasoningStarted, callerGone, received,
                   nData, nBeats>>
\* lines 232-236: the backend stream fails
OnError(r) ==
    /\ stream[r] = "open"
    /\ stream' = [stream EXCEPT ![r] = "errored"]
    /\ heartbeat' = [heartbeat EXCEPT ![r] = FALSE]
    /\ resEnded' = [resEnded EXCEPT ![r] = TRUE]
    /\ UNCHANGED <<validatedModels, showReasoning, lastCall, pc, model, nimRequest,
                   buffer, reasoningStarted, sink, callerGone, received,
                   nData, nBeats>>

closeListener_nodestroy(r) ==
    /\ heartbeat' = [heartbeat EXCEPT ![r] = FALSE]
    /\ UNCHANGED stream
\* lines 239-243: the req 'close' listener
closeListener(r) ==
    /\ heartbeat' = [heartbeat EXCEPT ![r] = FALSE]
    /\ stream' = [stream EXCEPT ![r] = "destroyed"]

\* The caller's connection closes and req emits 'close'.  The listener of
\* line 239 is registered only once the handler has resumed after its await:
\* an event emitted before that finds no listener.
CallerClose(r) ==
    /\ pc[r] \in {"pending", "streaming"}
    /\ callerGone[r] = "no"
    /\ IF pc[r] = "streaming"
       THEN /\ callerGone' = [callerGone EXCEPT ![r] = "midstream"]
            /\ closeListener(r)
       ELSE /\ callerGone' = [callerGone EXCEPT ![r] = "early"]
            /\ UNCHANGED <<heartbeat, stream>>
    /\ UNCHANGED <<validatedModels, showReasoning, lastCall, pc, model, nimRequest,
                   buffer, reasoningStarted, sink, resEnded, received, nData, nBeats>>

\* A request is over once its response has ended or its backend stream has been
\* destroyed; the next request is a fresh call of the handler, with locals of
\* its own (lines 104, 164-166).
over(r) ==
    \/ pc[r] = "responded"
    \/ pc[r] = "streaming" /\ stream[r] \in {"ended", "errored", "destroyed"}

NextRequest(r) ==
    /\ over(r)
    /\ pc' = [pc EXCEPT ![r] = "idle"]
    /\ model' = [model EXCEPT ![r] = <<>>]
    /\ nimRequest' = [nimRequest EXCEPT ![r] = NoRequest]
    /\ heartbeat' = [heartbeat EXCEPT ![r] = FALSE]
    /\ buffer' = [buffer EXCEPT ![r] = <<>>]
    /\ reasoningStarted' = [reasoningStarted EXCEPT ![r] = FALSE]
    /\ stream' = [stream EXCEPT ![r] = "none"]
    /\ sink' = [sink EXCEPT ![r] = <<>>]
    /\ resEnded' = [resEnded EXCEPT ![r] = FALSE]
    /\ callerGone' = [callerGone EXCEPT ![r] = "no"]
    /\ received' = [received EXCEPT ![r] = <<>>]
    /\ nData' = [nData EXCEPT ![r] = 0]
    /\ nBeats' = [nBeats EXCEPT ![r] = 0]
    /\ UNCHANGED <<validatedModels, showReasoning, lastCall>>

InitOf(R) ==
    /\ validatedModels = <<>>
    /\ showReasoning \in BOOLEAN
    /\ lastCall = NoCall
    /\ pc = [r \in R |-> "idle"]
    /\ model = [r \in R |-> <<>>]
    /\ nimRequest = [r \in R |-> NoRequest]
    /\ heartbeat = [r \in R |-> FALSE]
    /\ buffer = [r \in R |-> <<>>]
    /\ reasoningStarted = [r \in R |-> FALSE]
    /\ stream = [r \in R |-> "none"]
    /\ sink = [r \in R |-> <<>>]
    /\ resEnded = [r \in R |-> FALSE]
    /\ callerGone = [r \in R |-> "no"]
    /\ received = [r \in R |-> <<>>]
    /\ nData = [r \in R |-> 0]
    /\ nBeats = [r \in R |-> 0]

(***************************************************************************)
(* Inputs.                                                                 *)
(***************************************************************************)
A == <<"a">>
B == <<"b">>
C == <<"c">>
D == <<"d">>
QuotedR == <<"say ", "[DONE]">>
QuotedC == <<"see ", "[DONE]">>

rOnly(x) == Delta(TRUE, x, FALSE, <<>>)
cOnly(x) == Delta(FALSE, <<>>, TRUE, x)
both(x, y) == Delta(TRUE, x, TRUE, y)
neither == Delta(FALSE, <<>>, FALSE, <<>>)

DataLine(ch) == <<Prefix, Json(ch)>>
DoneLine == <<Prefix, Text(SENTINEL)>>
BadLine == <<Prefix, Text(<<"{oops">>)>>
CommentLine == <<Text(<<": ping">>)>>
AccentLine == <<Prefix, LeadByte, TrailByte>>

\* complete lines, each followed by its line break
StreamLines ==
    { DataLine(<<rOnly(A)>>), DataLine(<<rOnly(B)>>),
      DataLine(<<cOnly(C)>>), DataLine(<<cOnly(D)>>),
      DataLine(<<both(A, C)>>), DataLine(<<neither>>), DataLine(<<>>),
      DataLine(<<rOnly(<<>>)>>), DataLine(<<cOnly(<<>>)>>),
      DataLine(<<cOnly(C), rOnly(B)>>),
      DataLine(<<rOnly(QuotedR)>>), DataLine(<<both(A, QuotedC)>>),
      DoneLine, BadLine, CommentLine, <<>> }

StreamChunks ==
    {l \o <<NL>> : l \in StreamLines}
    \cup { DataLine(<<rOnly(A)>>) \o <<NL>> \o DataLine(<<rOnly(B)>>) \o <<NL>>,
           DataLine(<<cOnly(C)>>) \o <<NL>> \o DataLine(<<cOnly(D)>>) \o <<NL>>,
           DataLine(<<cOnly(C)>>) \o <<NL, NL>> \o DoneLine \o <<NL, NL>>,
           <<Prefix>>,
           <<Json(<<cOnly(D)>>), NL>>,
           DataLine(<<cOnly(D)>>) }

\* chunks that end at a line break, inside a line, between the prefix and
\* the payload, and between the two bytes of a character
LineChunks ==
    { DataLine(<<rOnly(A)>>) \o <<NL>>,
      DataLine(<<cOnly(C)>>) \o <<NL>>,
      DoneLine \o <<NL>>,
      BadLine \o <<NL>>,
      CommentLine \o <<NL>>,
      <<NL>>,
      DoneLine \o <<NL, NL>> \o DataLine(<<cOnly(D)>>) \o <<NL>>,
      DataLine(<<rOnly(A)>>) \o <<NL>> \o BadLine \o <<NL>>
          \o DataLine(<<cOnly(C)>>) \o <<NL>>,
      <<Prefix>>,
      <<Json(<<cOnly(D)>>), NL>>,
      DataLine(<<cOnly(D)>>),
      AccentLine \o <<NL>>,
      <<Prefix, LeadByte>>,
      <<TrailByte, NL>> }

StreamBodies ==
    { Body(<<"gpt-4", "o">>, OneMessage, <<>>, <<>>, <<>>),
      Body(<<>>, EmptyMessages, <<>>, <<>>, <<>>) }

StaticNames == { <<>>, <<"claude", "-3", "-opus">> }

UnseenNames ==
    { <<"DeepSeek", "-r1">>, <<"GPT-4", "-32k">>, <<"Claude", "-opus">>,
      <<"llama-", "405b">>, <<"claude", "-2">>, <<"gemini", "-", "o">>,
      <<"llama-", "70b">>, <<"mistral">>, <<"constructor">> }

ResolverBodies ==
    {Body(n, OneMessage, <<>>, <<>>, <<>>) : n \in StaticNames \cup UnseenNames}
    \cup {Body(<<"mistral">>, AbsentMessages, <<>>, <<>>, <<>>)}

ConcurrentNames == { <<"DeepSeek", "-r1">>, <<"mistral">>, <<"llama-", "70b">> }

ConcurrentBodies ==
    {Body(n, OneMessage, <<>>, <<>>, <<>>) : n \in ConcurrentNames}
    \cup {Body(<<"mistral">>, AbsentMessages, <<>>, <<>>, <<>>)}

OneChunk == { DataLine(<<cOnly(C)>>) \o <<NL>> }

\* request bodies: every kind of messages value, the optional fields absent,
\* zero, or another value
RequestNames == { <<>>, <<"mistral">> }
RequestMessages ==
    { AbsentMessages, NotArrayMessages, EmptyMessages, OneMessage, TwoMessages }
Temperatures == { <<>>, <<0>>, <<6>>, <<10>> }
MaxTokens == { <<>>, <<0>>, <<16>> }
StreamFlags == { <<>>, <<FALSE>>, <<TRUE>> }
RequestBodies ==
    { Body(n, m, t, k, f) :
        n \in RequestNames, m \in RequestMessages, t \in Temperatures,
        k \in MaxTokens, f \in StreamFlags }

Statuses == { <<>>, <<429>> }

\* one request at a time, every kind of backend line
Init == InitOf({1})

Next ==
    \/ \E r \in DOMAIN pc, body \in StreamBodies : Handle(r, body)
    \/ \E r \in DOMAIN pc : BackendRespond(r)
    \/ \E r \in DOMAIN pc, status \in Statuses : BackendReject(r, status)
    \/ \E r \in DOMAIN pc : Heartbeat(r)
    \/ \E r \in DOMAIN pc, chunk \in StreamChunks : OnData(r, chunk)
    \/ \E r \in DOMAIN pc : OnEnd(r)
    \/ \E r \in DOMAIN pc : OnError(r)
    \/ \E r \in DOMAIN pc : CallerClose(r)
    \/ \E r \in DOMAIN pc : NextRequest(r)

Spec == Init /\ [][Next]_vars

\* one request at a time, many model names
NextResolver ==
    \/ \E r \in DOMAIN pc, body \in ResolverBodies : Handle(r, body)
    \/ \E r \in DOMAIN pc : BackendRespond(r)
    \/ \E r \in DOMAIN pc, status \in Statuses : BackendReject(r, status)
    \/ \E r \in DOMAIN pc : Heartbeat(r)
    \/ \E r \in DOMAIN pc, chunk \in OneChunk : OnData(r, chunk)
    \/ \E r \in DOMAIN pc : OnEnd(r)
    \/ \E r \in DOMAIN pc : OnError(r)
    \/ \E r \in DOMAIN pc : CallerClose(r)
    \/ \E r \in DOMAIN pc : NextRequest(r)

SpecResolver == Init /\ [][NextResolver]_vars

\* one request at a time, every kind of request body
NextBodies ==
    \/ \E r \in DOMAIN pc, body \in RequestBodies : Handle(r, body)
    \/ \E r \in DOMAIN pc : BackendRespond(r)
    \/ \E r \in DOMAIN pc, status \in Statuses : BackendReject(r, status)
    \/ \E r \in DOMAIN pc : Heartbeat(r)
    \/ \E r \in DOMAIN pc, chunk \in OneChunk : OnData(r, chunk)
    \/ \E r \in DOMAIN pc : OnEnd(r)
    \/ \E r \in DOMAIN pc : OnError(r)
    \/ \E r \in DOMAIN pc : CallerClose(r)
    \/ \E r \in DOMAIN pc : NextRequest(r)

SpecBodies == Init /\ [][NextBodies]_vars

\* one request at a time, every kind of chunk boundary
NextLines ==
    \/ \E r \in DOMAIN pc, body \in StreamBodies : Handle(r, body)
    \/ \E r \in DOMAIN pc : BackendRespond(r)
    \/ \E r \in DOMAIN pc, status \in Statuses : BackendReject(r, status)
    \/ \E r \in DOMAIN pc : Heartbeat(r)
    \/ \E r \in DOMAIN pc, chunk \in LineChunks : OnData(r, chunk)
    \/ \E r \in DOMAIN pc : OnEnd(r)
    \/ \E r \in DOMAIN pc : OnError(r)
    \/ \E r \in DOMAIN pc : CallerClose(r)
    \/ \E r \in DOMAIN pc : NextRequest(r)

SpecLines == Init /\ [][NextLines]_vars

\* Two requests in flight together.  The backend streams its answer to the
\* first and refuses the second, which keeps the state space small: a request
\* resolves its model while the other waits for the backend, for a chunk or
\* for a heartbeat tick.
InitConcurrent == InitOf({1, 2})
Streamed == {1}

NextConcurrent ==
    \/ \E r \in DOMAIN pc, body \in ConcurrentBodies : Handle(r, body)
    \/ \E r \in Streamed : BackendRespond(r)
    \/ \E r \in DOMAIN pc : BackendReject(r, <<>>)
    \/ \E r \in DOMAIN pc : Heartbeat(r)
    \/ \E r \in DOMAIN pc, chunk \in OneChunk : OnData(r, chunk)
    \/ \E r \in DOMAIN pc : OnEnd(r)
    \/ \E r \in DOMAIN pc : OnError(r)
    \/ \E r \in DOMAIN pc : CallerClose(r)
    \/ \E r \in DOMAIN pc : NextRequest(r)

SpecConcurrent == InitConcurrent /\ [][NextConcurrent]_vars

(***************************************************************************)
(* Properties of the model resolver.                                       *)
(***************************************************************************)
inTable(name) == Has(MODEL_MAPPING, name)
missedBy(c) == ~inTable(c.name) /\ ~Has(c.pre, c.name)
evicted(c) == Keys(c.pre) \ Keys(validatedModels)

\* C1: after any sequence of getOptimalModel calls the fallback cache never
\* holds more than MAX_CACHE_SIZE entries.
C1_CacheBounded == Len(validatedModels) <= MAX_CACHE_SIZE

\* an unseen name was resolved while the cache was at its bound
C1_InsertAtBound ==
    /\ lastCall.called
    /\ Len(lastCall.pre) = MAX_CACHE_SIZE
    /\ missedBy(lastCall)
    /\ Has(validatedModels, lastCall.name)

\* C2: a call with a name in neither the static table nor the cache inserts
\* the name as the newest entry; at the bound exactly the oldest entry goes
\* and the others keep their values and order, below the bound nothing goes.
C2_MissInsertsEvictingOldest ==
    (lastCall.called /\ missedBy(lastCall)) =>
        /\ validatedModels # <<>>
        /\ Last(validatedModels)[1] = lastCall.name
        /\ Front(validatedModels) =
              IF Len(lastCall.pre) >= MAX_CACHE_SIZE
              THEN Tail(lastCall.pre)
              ELSE lastCall.pre

\* C3: a call with a key of the static table or with a cached name returns
\* the mapped or cached value and leaves the cache as it was (keys, values,
\* order); no key of the static table is ever in the cache.
C3_HitLeavesCache ==
    /\ Keys(validatedModels) \cap Keys(MODEL_MAPPING) = {}
    /\ (lastCall.called /\ inTable(lastCall.name)) =>
          /\ lastCall.ret = Get(MODEL_MAPPING, lastCall.name)
          /\ validatedModels = lastCall.pre
    /\ (lastCall.called /\ ~inTable(lastCall.name)
            /\ Has(lastCall.pre, lastCall.name)) =>
          /\ lastCall.ret = Get(lastCall.pre, lastCall.name)
          /\ validatedModels = lastCall.pre

\* a hit on the oldest entry of a full cache
C3_HitOnOldest ==
    /\ lastCall.called
    /\ Len(lastCall.pre) = MAX_CACHE_SIZE
    /\ lastCall.pre[1][1] = lastCall.name

\* the bucket of a name, by case-insensitive substring match
hasWord(name, w) == includes(toLowerCase(name), w)
BucketD == "deepseek-ai/deepseek-v3.1"
BucketL == "meta/llama-3.1-405b-instruct"
BucketM == "meta/llama-3.1-70b-instruct"
bucketOf(name) ==
    CASE hasWord(name, <<"deepseek">>) -> BucketD
      [] ~hasWord(name, <<"deepseek">>)
            /\ (\/ hasWord(name, <<"gpt-4">>)
                \/ hasWord(name, <<"claude", "-opus">>)
                \/ hasWord(name, <<"405b">>)) -> BucketL
      [] OTHER ->
            IF \/ hasWord(name, <<"claude">>)
               \/ hasWord(name, <<"gemini">>)
               \/ hasWord(name, <<"70b">>)
            THEN BucketM ELSE BucketD

\* C4: for every name not in the static table, whatever the calls before,
\* getOptimalModel returns the backend name of the name's bucket.
C4_ReturnsBucket ==
    (lastCall.called /\ ~inTable(lastCall.name)) =>
        lastCall.ret = bucketOf(lastCall.name)

inFlight(r) ==
    \/ pc[r] = "pending"
    \/ pc[r] = "streaming" /\ stream[r] = "open"

\* C5: with handlers interleaving at their suspension points, every
\* resolution is one step: the bound holds, a call removes at most one
\* entry, no name has two entries, and a name just resolved while another
\* request in flight had asked for it too has exactly one entry.
C5_ResolveIsAtomic ==
    /\ Len(validatedModels) <= MAX_CACHE_SIZE
    /\ Cardinality(Keys(validatedModels)) = Len(validatedModels)
    /\ lastCall.called => Cardinality(evicted(lastCall)) <= 1
    /\ \A r \in DOMAIN pc, q \in DOMAIN pc :
          (/\ lastCall.called /\ lastCall.by = r /\ q # r
           /\ inFlight(r) /\ inFlight(q)
           /\ model[q] = lastCall.name /\ ~inTable(lastCall.name))
          => Cardinality({i \in 1..Len(validatedModels) :
                             validatedModels[i][1] = lastCall.name}) = 1

\* the second request resolves, with the cache full, the name the first one
\* asked for and is still streaming
C5_SameNameInFlight ==
    /\ pc[1] = "streaming" /\ stream[1] = "open" /\ nData[1] > 0
    /\ pc[2] = "pending"
    /\ lastCall.called /\ lastCall.by = 2
    /\ model[1] = lastCall.name /\ model[1] # <<>>
    /\ Len(lastCall.pre) = MAX_CACHE_SIZE

(***************************************************************************)
(* Properties of the stream transcoder.  The backend's lines are read off  *)
(* everything received so far; the caller's events off the sink.           *)
(***************************************************************************)
lineEnds(s) == {i \in 1..Len(s) : s[i] = NL}
kthEnd(s, k) ==
    CHOOSE i \in lineEnds(s) : Cardinality({j \in lineEnds(s) : j < i}) = k - 1
wholeLines(s) ==
    [k \in 1..Cardinality(lineEnds(s)) |->
        SubSeq(s, IF k = 1 THEN 1 ELSE kthEnd(s, k - 1) + 1, kthEnd(s, k) - 1)]
dataLines(s) == SelectSeq(wholeLines(s), LAMBDA l : l # <<>> /\ l[1] = Prefix)

\* the data lines the backend has sent: those of the text its bytes encode
sentLines(bytes) == dataLines(toString(bytes))

\* the writes that answer data lines
events(r) == SelectSeq(sink[r], LAMBDA w : w.k \in {"raw", "event"})

\* a data line, or a write, that carries a delta, and its first delta
carriesDelta(line) ==
    Len(line) = 2 /\ line[2].t = "json" /\ line[2].choices # <<>>
deltaIn(w) ==
    IF w.k = "event" THEN w.choices # <<>> ELSE carriesDelta(w.line)
firstDelta(w) == IF w.k = "event" THEN w.choices[1] ELSE w.line[2].choices[1]

\* C6: in either mode no event written to the caller has a reasoning_content
\* field in any choice delta.
C6_NoReasoningField ==
    \A r \in DOMAIN pc : \A i \in 1..Len(sink[r]) :
        LET w == sink[r][i] IN
        /\ \A j \in 1..Len(w.choices) : ~w.choices[j].hasR
        /\ \A n \in 1..Len(w.line) :
              \A j \in 1..Len(w.line[n].choices) : ~w.line[n].choices[j].hasR

\* C7: in pass-through mode the content of each emitted event is the delta's
\* visible fragment, or the empty string when it has none; no reasoning text
\* is in any emitted content; reasoningStarted stays false.
C7_PassThroughContent ==
    \A r \in DOMAIN pc :
        (~showReasoning /\ pc[r] = "streaming") =>
            LET lines == sentLines(received[r])
                out == events(r)
            IN  /\ ~reasoningStarted[r]
                /\ Len(out) = Len(lines)
                /\ \A i \in 1..Len(lines) :
                      carriesDelta(lines[i]) =>
                          LET d == lines[i][2].choices[1] IN
                          /\ deltaIn(out[i])
                          /\ firstDelta(out[i]).hasC
                          /\ firstDelta(out[i]).c = (IF d.hasC THEN d.c ELSE <<>>)
                          /\ \A k \in 1..Len(lines) :
                                (carriesDelta(lines[k])
                                    /\ lines[k][2].choices[1].r # <<>>)
                                => ~includes(firstDelta(out[i]).c,
                                             lines[k][2].choices[1].r)

\* the reference machine of merge mode, over the deltas in arrival order
refStep(d, open) ==
    LET hasR == d.hasR /\ d.r # <<>>
        hasC == d.hasC /\ d.c # <<>>
        rOut == IF ~hasR THEN <<>> ELSE IF open THEN d.r ELSE OPEN_MARK \o d.r
        mid == open \/ hasR
        cOut == IF ~hasC THEN <<>> ELSE IF mid THEN CLOSE_MARK \o d.c ELSE d.c
    IN  [out |-> rOut \o cOut, open |-> mid /\ ~hasC]

RECURSIVE refRun(_, _)
refRun(lines, open) ==
    IF lines = <<>> THEN [out |-> <<>>, open |-> open]
    ELSE IF ~carriesDelta(Head(lines)) THEN refRun(Tail(lines), open)
    ELSE LET h == refStep(Head(lines)[2].choices[1], open)
             t == refRun(Tail(lines), h.open)
         IN  [out |-> h.out \o t.out, open |-> t.open]

RECURSIVE emitted(_)
emitted(ws) ==
    IF ws = <<>> THEN <<>>
    ELSE (IF deltaIn(Head(ws)) /\ firstDelta(Head(ws)).hasC
          THEN firstDelta(Head(ws)).c ELSE <<>>) \o emitted(Tail(ws))

\* C8: in merge mode the concatenation of the emitted content is what the
\* reference machine, started closed, produces for the deltas received.
C8_MergeMatchesReference ==
    \A r \in DOMAIN pc :
        (showReasoning /\ pc[r] = "streaming") =>
            LET ref == refRun(sentLines(received[r]), FALSE) IN
            /\ emitted(events(r)) = ref.out
            /\ reasoningStarted[r] = ref.open

\* C9: once the caller has disconnected from a started stream the heartbeat
\* is stopped, the backend stream is destroyed and nothing more is written.
C9_DisconnectStopsAll ==
    [][\A r \in DOMAIN pc :
          callerGone'[r] = "midstream" =>
              /\ ~heartbeat'[r]
              /\ stream'[r] = "destroyed"
              /\ callerGone[r] = "midstream" =>
                    /\ sink'[r] = sink[r]
                    /\ received'[r] = received[r]]_vars

\* the caller left a stream that had more chunks and beats to come
C9_LeftMidStream ==
    \E r \in DOMAIN pc :
        /\ callerGone[r] = "midstream"
        /\ sink[r] # <<>>
        /\ ~resEnded[r]
        /\ nData[r] < MaxChunks
        /\ nBeats[r] < MaxBeats

\* C10: the end and the failure of the backend stream stop the heartbeat and
\* end the response with no error body; heartbeat lines are written only
\* between the start of the stream and the first of backend end, backend
\* error and caller disconnect; nothing is written once the response ended.
C10_HeartbeatOnlyWhileLive ==
    [][\A r \in DOMAIN pc :
          /\ (stream[r] = "open" /\ stream'[r] \in {"ended", "errored"}) =>
                /\ ~heartbeat'[r]
                /\ resEnded'[r]
                /\ \A i \in 1..Len(sink'[r]) : sink'[r][i].k # "json"
          /\ (pc'[r] = pc[r] /\ Len(sink'[r]) > Len(sink[r])
                /\ Last(sink'[r]).k = "heartbeat") =>
                /\ stream[r] = "open"
                /\ callerGone[r] = "no"
          /\ (resEnded[r] /\ resEnded'[r]) => sink'[r] = sink[r]]_vars

(***************************************************************************)
(* Properties of a line the parser rejects.                                *)
(***************************************************************************)
\* the bytes after the last line break
afterLastEnd(s) ==
    IF lineEnds(s) = {} THEN s
    ELSE SubSeq(s, kthEnd(s, Cardinality(lineEnds(s))) + 1, Len(s))

\* a data line whose payload JSON.parse rejects
unparsable(line) == startsWithData(line) /\ ~parses(line)

\* the writes, of a run of writes, that answer the parsable lines
RECURSIVE answersToParsed(_, _)
answersToParsed(lines, out) ==
    IF lines = <<>> \/ out = <<>> THEN <<>>
    ELSE (IF parses(Head(lines)) THEN <<Head(out)>> ELSE <<>>)
             \o answersToParsed(Tail(lines), Tail(out))

\* C11: a data line whose payload does not parse is written to the caller as
\* it came; the chunk that brings it leaves the heartbeat running and the
\* response open; reasoningStarted and the events of the parsable lines are
\* those of the same stream without the rejected lines, in order; the buffer
\* holds the bytes after the last line break.
C11_UnparsableForwarded ==
    [][\A r \in DOMAIN pc :
          Len(received'[r]) > Len(received[r]) =>
              LET lines == sentLines(received'[r])
                  out == SelectSeq(sink'[r], LAMBDA w : w.k \in {"raw", "event"})
                  clean == processLines(SelectSeq(lines, parses), FALSE,
                                        showReasoning)
              IN  /\ heartbeat'[r] = heartbeat[r]
                  /\ resEnded'[r] = resEnded[r]
                  /\ stream'[r] = stream[r]
                  /\ Len(out) = Len(lines)
                  /\ \A i \in 1..Len(lines) :
                        unparsable(lines[i]) =>
                            out[i].k = "raw" /\ out[i].line = lines[i]
                  /\ answersToParsed(lines, out) = clean.out
                  /\ reasoningStarted'[r] = clean.started
                  /\ buffer'[r] = afterLastEnd(toString(received'[r]))]_vars

(***************************************************************************)
(* Properties of the 'data: [DONE]' line.                                  *)
(***************************************************************************)
\* the writes that answer the lines other than 'data: [DONE]'
RECURSIVE answersToOthers(_, _)
answersToOthers(lines, out) ==
    IF lines = <<>> \/ out = <<>> THEN <<>>
    ELSE (IF Head(lines) # DoneLine THEN <<Head(out)>> ELSE <<>>)
             \o answersToOthers(Tail(lines), Tail(out))

\* what a write is, but for the text of a line written as it came
shapes(ws) == [i \in 1..Len(ws) |-> [ws[i] EXCEPT !.line = <<>>]]

\* the complete data lines of the text that bytes encode, by one scan
scannedLines(bytes) ==
    SelectSeq(Front(split(toString(bytes), <<>>)), startsWithData)

\* a chunk's step: each 'data: [DONE]' line is written as it came, with a
\* blank line after it; timer, response and backend stream stay as they were;
\* the other lines are answered as in the same stream without the sentinel
sentinelPassesBy(r) ==
    Len(received'[r]) > Len(received[r]) =>
        LET lines == scannedLines(received'[r])
            out == SelectSeq(sink'[r], LAMBDA w : w.k \in {"raw", "event"})
            others == processLines(SelectSeq(lines, LAMBDA l : l # DoneLine),
                                   FALSE, showReasoning)
        IN  /\ heartbeat'[r] = heartbeat[r]
            /\ resEnded'[r] = resEnded[r]
            /\ stream'[r] = stream[r]
            /\ Len(out) = Len(lines)
            /\ \A i \in 1..Len(lines) :
                  lines[i] = DoneLine => out[i] = RawWrite(DoneLine, 2)
            /\ shapes(answersToOthers(lines, out)) = shapes(others.out)
            /\ reasoningStarted'[r] = others.started

timerCleared(r) == heartbeat[r] /\ ~heartbeat'[r]
sinkClosed(r) == pc[r] = "streaming" /\ ~resEnded[r] /\ resEnded'[r]
backendOver(r) == stream[r] = "open" /\ stream'[r] \in {"ended", "errored"}
callerLeft(r) == callerGone[r] = "no" /\ callerGone'[r] = "midstream"

\* C12 as stated: the 'data: [DONE]' line is forwarded as it came and ends
\* nothing, the lines after it are processed, the heartbeat keeps running;
\* the heartbeat is cancelled and the response ended only by the end or the
\* failure of the backend stream.
C12_TeardownOnlyOnBackendEnd ==
    [][\A r \in DOMAIN pc :
          /\ sentinelPassesBy(r)
          /\ timerCleared(r) => backendOver(r)
          /\ sinkClosed(r) => backendOver(r)]_vars

\* C12, amended: as above, but the heartbeat is cancelled by the caller's
\* disconnect as well; the response is ended only by the end or the failure
\* of the backend stream.
C12_SentinelEndsNothing ==
    [][\A r \in DOMAIN pc :
          /\ sentinelPassesBy(r)
          /\ timerCleared(r) => (backendOver(r) \/ callerLeft(r))
          /\ sinkClosed(r) => backendOver(r)]_vars

\* after 'data: [DONE]' a heartbeat was written and a later data line was
\* answered by an event, the stream still live
C12_LifeAfterSentinel ==
    \E r \in DOMAIN pc :
        /\ stream[r] = "open" /\ heartbeat[r] /\ ~resEnded[r]
        /\ scannedLines(received[r]) = <<DoneLine, DataLine(<<cOnly(C)>>)>>
        /\ \E i, j, k \in 1..Len(sink[r]) :
              /\ i < j /\ j < k
              /\ sink[r][i] = RawWrite(DoneLine, 2)
              /\ sink[r][j] = HeartbeatWrite
              /\ sink[r][k].k = "event"

(***************************************************************************)
(* Properties of the request handler.                                      *)
(***************************************************************************)
messagesMissing(body) == body.messages = <<>>
messagesNotSequence(body) == body.messages # <<>> /\ ~body.messages[1].array
messagesEmpty(body) ==
    /\ body.messages # <<>>
    /\ body.messages[1].array
    /\ Len(body.messages[1].items) = 0

\* a response that is the 400 envelope and nothing else
refused(r) ==
    /\ pc[r] = "responded"
    /\ Len(sink[r]) = 1
    /\ sink[r][1].k = "json"
    /\ sink[r][1].status = 400
    /\ sink[r][1].type = "invalid_request_error"

\* C13: a request whose messages field is missing, not an array or empty is
\* answered by the 400 envelope of type invalid_request_error; the handler
\* builds no backend request, starts no stream and no heartbeat and leaves
\* the fallback cache as it was, in that step and for the rest of the request.
C13_InvalidMessagesRefused ==
    [][\A r \in DOMAIN pc :
          /\ \A body \in RequestBodies :
                (/\ Handle(r, body)
                 /\ \/ messagesMissing(body)
                    \/ messagesNotSequence(body)
                    \/ messagesEmpty(body))
                => /\ refused(r)'
                   /\ resEnded'[r]
                   /\ nimRequest'[r] = NoRequest
                   /\ stream'[r] = "none"
                   /\ ~heartbeat'[r]
                   /\ validatedModels' = validatedModels
                   /\ lastCall' = lastCall
          /\ refused(r) =>
                /\ nimRequest'[r] = NoRequest
                /\ stream'[r] = "none"
                /\ ~heartbeat'[r]
                /\ validatedModels' = validatedModels
                /\ sink'[r] \in {sink[r], <<>>}]_vars

\* a request was refused while the cache held a name resolved before
C13_RefusedWithCache ==
    \E r \in DOMAIN pc :
        /\ refused(r)
        /\ validatedModels # <<>>
        /\ lastCall.called
        /\ model[r] # lastCall.name

isEnvelope(w) == w.k = "json"
hasEnvelope(s) == \E i \in 1..Len(s) : isEnvelope(s[i])

\* C14: a failure of the backend call before the stream has begun is answered
\* by exactly one JSON envelope, with the backend's status or 500 when there
\* is none; once the stream has begun a failure writes nothing and ends the
\* response; no response holds an envelope together with anything else.
C14_EnvelopeOrStreamNeverBoth ==
    [][\A r \in DOMAIN pc :
          /\ \A status \in Statuses :
                BackendReject(r, status) =>
                    /\ sink[r] = <<>>
                    /\ Len(sink'[r]) = 1
                    /\ isEnvelope(sink'[r][1])
                    /\ sink'[r][1].status =
                          (IF status = <<>> THEN 500 ELSE status[1])
                    /\ resEnded'[r]
          /\ (pc[r] = "streaming" /\ pc'[r] = "streaming") =>
                /\ ~hasEnvelope(sink'[r])
                /\ (stream[r] = "open" /\ stream'[r] = "errored") =>
                      sink'[r] = sink[r] /\ resEnded'[r]
          /\ hasEnvelope(sink'[r]) => Len(sink'[r]) = 1]_vars

\* the backend stream failed after events and a heartbeat had been written
C14_FailedMidStream ==
    \E r \in DOMAIN pc :
        /\ stream[r] = "errored"
        /\ resEnded[r]
        /\ events(r) # <<>>
        /\ \E i \in 1..Len(sink[r]) : sink[r][i] = HeartbeatWrite

\* the reference translation of a request body
supplied(x, d) == IF x = <<>> THEN d ELSE x[1]
reference(body, resolved) ==
    [model |-> resolved,
     messages |-> body.messages,
     temperature |-> supplied(body.temperature, DEFAULT_TEMPERATURE),
     max_tokens |-> supplied(body.max_tokens, DEFAULT_MAX_TOKENS),
     stream |-> TRUE]

\* C15: for every request with valid messages the backend request is the
\* reference translation: the resolved model name, the caller's messages,
\* the caller's temperature and max_tokens whenever given and 0.6 and 2048
\* only when absent, and stream = true whatever the caller's stream field.
C15_RequestIsReference ==
    [][\A r \in DOMAIN pc : \A body \in RequestBodies :
          (/\ Handle(r, body)
           /\ ~messagesMissing(body)
           /\ ~messagesNotSequence(body)
           /\ ~messagesEmpty(body))
          => /\ pc'[r] = "pending"
             /\ lastCall'.called /\ lastCall'.by = r
             /\ nimRequest'[r] = reference(body, lastCall'.ret)]_vars

(***************************************************************************)
(* Properties of the line-by-line transcoding.                             *)
(***************************************************************************)
\* a write that forwards a line as the terminator: the line and a blank line
asTerminator(w) == w.k = "raw" /\ w.nl = 2

\* C16: a data line is forwarded as the terminator only when its payload is
\* the sentinel itself; every data line whose payload parses, one holding
\* '[DONE]' inside a content or reasoning fragment included, is answered by
\* exactly one re-serialized event.
C16_OnlySentinelForwarded ==
    \A r \in DOMAIN pc :
        LET lines == sentLines(received[r])
            out == events(r)
        IN  /\ Len(out) = Len(lines)
            /\ \A i \in 1..Len(lines) :
                  /\ asTerminator(out[i]) => lines[i] = DoneLine
                  /\ parses(lines[i]) => out[i].k = "event"

\* C17: whatever the chunks the backend's bytes came in, the writes that are
\* not heartbeats, reasoningStarted and the buffer are those of the same
\* bytes come as one chunk: every complete data line is answered once and in
\* order, the other lines by nothing, and the buffer holds what follows the
\* last line break.
C17_ChunkingIrrelevant ==
    \A r \in DOMAIN pc :
        LET text == toString(received[r])
            whole == onData(<<>>, FALSE, showReasoning, text)
        IN  /\ events(r) = whole.out
            /\ Len(events(r)) = Len(dataLines(text))
            /\ reasoningStarted[r] = whole.started
            /\ buffer[r] = whole.buffer
            /\ buffer[r] = afterLastEnd(text)

(***************************************************************************)
(* Properties of the end of a request.                                     *)
(***************************************************************************)
\* C18: when the caller has disconnected while the backend call was pending,
\* no data and no heartbeat is written to the closed response, the heartbeat
\* timer is not running, and the backend stream is not left open or read to
\* its end.
C18_EarlyDisconnectObserved ==
    \A r \in DOMAIN pc :
        callerGone[r] = "early" =>
            /\ ~heartbeat[r]
            /\ stream[r] \notin {"open", "ended"}
            /\ \A i \in 1..Len(sink[r]) :
                  sink[r][i].k \notin {"raw", "event", "heartbeat"}

\* every data line of a text, the last one with no line break after it included
allDataLines(text) == SelectSeq(split(text, <<>>), startsWithData)

\* C19: when the backend stream has ended and the response is closed, every
\* data line the backend sent, a last one without a line break included, has
\* been answered by exactly one write: no data line is left in the buffer.
C19_EveryLineAnsweredAtEnd ==
    \A r \in DOMAIN pc :
        (stream[r] = "ended" /\ resEnded[r]) =>
            /\ Len(events(r)) = Len(allDataLines(toString(received[r])))
            /\ ~startsWithData(buffer[r])

\* the markers in the content written to the caller, in order
markersOf(r) ==
    SelectSeq(emitted(events(r)),
              LAMBDA piece : <<piece>> = OPEN_MARK \/ <<piece>> = CLOSE_MARK)

\* C20: in merge mode, when the backend stream has ended and the response is
\* closed, reasoningStarted is false and the last marker written, if any, is
\* the closing one: no '<think>' block is left open.
C20_NoOpenBlockAtEnd ==
    \A r \in DOMAIN pc :
        (showReasoning /\ stream[r] = "ended" /\ resEnded[r]) =>
            /\ ~reasoningStarted[r]
            /\ markersOf(r) # <<>> => <<Last(markersOf(r))>> = CLOSE_MARK

====
